---------------------------- MODULE Spec2Model ----------------------------
(***************************************************************************)
(* curses-game-wrapper: the VT100 emulator (src/src/term_data.rs) and the  *)
(* turn loop GameEnv::play with its reader and viewer threads              *)
(* (src/src/lib.rs).                                                       *)
(*                                                                         *)
(* Two specifications share the variables:                                 *)
(*   Spec      the turn loop: child, reader thread, viewer thread, driver  *)
(*             and AI; the emulator is fed through the parser.             *)
(*   TermSpec  the emulator alone, fed arbitrary parser callbacks.         *)
(*                                                                         *)
(* Bytes are their integer codes.  usize is narrowed to 30 bits     *)
(* (TLC's integers are 32 bits wide); every comparison the code makes is   *)
(* against grid sizes, so a wrapped value behaves as the 64-bit one does.  *)
(***************************************************************************)
EXTENDS Integers, Sequences, FiniteSets, TLC

(* ------------------------------ bounds --------------------------------- *)
\* lines and columns of the GameSetting (24 and 80 by default)
H == 3
W == 3
\* largest CSI parameter value fed to the emulator
MaxArg == 4
\* largest max_loop of the GameSetting
MaxLoop == 3
\* number of chunks the child writes to its stdout
MaxChunks == 2

(* ----------------------- program constants ----------------------------- *)
SP == 32
BS == 8
LF == 10
VT == 11
FF == 12
CR == 13
NEL == 133
BUFSIZE == 4096
\* 2^w, the number of usize values (w narrowed from 64 to 30)
UsizeMod == 2 ^ 30

VARIABLES
    \* build and configuration
    overflow_checks,  \* TRUE: arithmetic overflow panics (debug), FALSE: wraps
    max_loop,         \* GameEnv.max_loop
    draw_type,        \* GameEnv.draw_type: "Null" | "Terminal"
    ai_reply,         \* what the AI's action returns: None | Some(bytes)
    kill_err,         \* TRUE: Child::kill returns Err for a child that is dead
                      \* (TerminateProcess on an ended process), FALSE: it
                      \* returns Ok (SIGKILL to a child never waited for)
    \* emulator
    term_data,        \* GameEnv.term_data: TermData
    fed,              \* TermSpec: callbacks fed so far
    last_cb,          \* TermSpec: the last callback fed
    \* child process and its pipes
    child,            \* "running" | "exited" | "killed"
    pipe,             \* what read() on the child's stdout will return, in order
    emitted,          \* history: every unit the child wrote
    stdin_log,        \* history: the byte strings handed to send_bytes, and
                      \* whether write_all returned Ok
    \* reader thread (ProcHandler::run)
    reader,           \* "check" | "read" | "done" | "panicked"
    chan,             \* reader -> driver channel (queue of Handle)
    killed,           \* ProcHandler.killed (AtomicBool)
    published,        \* history: every Handle the reader sent
    \* viewer thread
    viewer,           \* "run" | "done" | "panicked"
    vchan,            \* driver -> viewer channel
    viewed,           \* history: every Handle the viewer thread consumed
    \* driver (GameEnv::play)
    pc,               \* "loop" | "kill" | "vzero" | "final" | "join_reader"
                      \* | "join_viewer" | "returned" | "unwound" | "aborted"
    i,                \* the loop index
    proc_dead,
    stored_map,       \* None or Some(grid)
    received,         \* history: every Handle taken from the reader channel
    outcomes,         \* history: per iteration "Valid" | "Zero" | "Timeout" | "Panicked"
    applied,          \* history: bytes passed to parser.advance
    ai_log,           \* history: every call of ai.action
    trace             \* history: kill / viewer-Zero / final action / drop, in order

vars == <<overflow_checks, max_loop, draw_type, ai_reply, kill_err, term_data, fed, last_cb,
          child, pipe, emitted, stdin_log, reader, chan, killed, published,
          viewer, vchan, viewed, pc, i, proc_dead, stored_map, received,
          outcomes, applied, ai_log, trace>>

(* ------------------------- Option and usize ---------------------------- *)
None == <<>>
Some(v) == <<v>>
IsSome(o) == o # <<>>
Unwrap(o) == o[1]

Rows == 0 .. (H - 1)
Cols == 0 .. (W - 1)

(* ------------------------------ TermData ------------------------------- *)
BlankRow == [j \in Cols |-> SP]

Cursor(x, y) == [x |-> x, y |-> y]

LineRange(top, bottom) == [top |-> top, bottom |-> bottom]

Contains(r, u) == r.top <= u /\ u < r.bottom

TermModeDefault == {"SHOW_CURSOR", "LINE_WRAP"}

\* TermData::from_setting
InitTerm ==
    [buf |-> [r \in Rows |-> BlankRow],
     cur |-> Cursor(0, 0),
     mode |-> TermModeDefault,
     scroll_range |-> LineRange(0, H),
     saved_cur |-> Cursor(0, 0),
     preceeding |-> None,
     panicked |-> FALSE]

\* an assertion, index or unwrap failure
Panic(t) == [t EXCEPT !.panicked = TRUE]

\* a - b on usize: overflow panics in a build with overflow checks and wraps otherwise
USub(a, b) == IF a >= b THEN a - b ELSE a - b + UsizeMod
USubOverflows(a, b) == a < b
UAdd(a, b) == IF a + b < UsizeMod THEN a + b ELSE a + b - UsizeMod
UAddOverflows(a, b) == a + b >= UsizeMod

\* a faulty snapshot: the grid of the construction
ret_screen_blank(t) == InitTerm.buf

ret_screen(t) == t.buf

is_cursor_valid(t) == t.cur.y < H /\ t.cur.x < W

\* buf[row][lo..hi) := ' ' ; an index outside the grid panics
FillCols(t, row, lo, hi) ==
    IF lo >= hi THEN t
    ELSE IF row >= H \/ hi > W THEN Panic(t)
    ELSE [t EXCEPT !.buf[row] =
            [j \in Cols |-> IF lo <= j /\ j < hi THEN SP ELSE @[j]]]

\* buf[lo..hi)[0..W) := ' '
FillRows(t, lo, hi) ==
    IF lo >= hi THEN t
    ELSE IF hi > H THEN Panic(t)
    ELSE [t EXCEPT !.buf =
            [r \in Rows |-> IF lo <= r /\ r < hi THEN BlankRow ELSE @[r]]]

carriage_return(t) == [t EXCEPT !.cur.x = 0]

\* the loop body of scroll_up_relative for row k, rows k+1.. following
RECURSIVE ScrollUpRows(_, _, _, _, _)
ScrollUpRows(buf, tmp, k, bottom, num) ==
    IF k >= bottom THEN tmp
    ELSE ScrollUpRows(buf,
                      [tmp EXCEPT ![k] = IF k + num < bottom THEN buf[k + num]
                                         ELSE BlankRow],
                      k + 1, bottom, num)

scroll_up_relative(t, origin, num) ==
    IF origin >= t.scroll_range.bottom THEN t
    ELSE IF t.scroll_range.bottom > H THEN Panic(t)
    ELSE [t EXCEPT !.buf = ScrollUpRows(t.buf, t.buf, origin,
                                        t.scroll_range.bottom, num)]

\* a faulty scroll_up: one row whatever num is
scroll_up_one(t, num) == scroll_up_relative(t, t.scroll_range.top, 1)

scroll_up(t, num) == scroll_up_relative(t, t.scroll_range.top, num)

\* the loop body of scroll_down_relative for row k, rows k+1.. following
RECURSIVE ScrollDownRows(_, _, _, _, _)
ScrollDownRows(buf, tmp, k, bottom, num) ==
    IF k >= bottom THEN tmp
    ELSE ScrollDownRows(buf,
                        IF k + num < bottom THEN [tmp EXCEPT ![k + num] = buf[k]]
                        ELSE [tmp EXCEPT ![k] = BlankRow],
                        k + 1, bottom, num)

scroll_down_relative(t, origin, num) ==
    IF origin >= t.scroll_range.bottom THEN t
    ELSE IF t.scroll_range.bottom > H THEN Panic(t)
    ELSE [t EXCEPT !.buf = ScrollDownRows(t.buf, t.buf, origin,
                                          t.scroll_range.bottom, num)]

scroll_down(t, num) == scroll_down_relative(t, t.scroll_range.top, num)

\* a faulty linefeed: the scroll region is ignored
linefeed_plain(t) ==
    IF t.cur.y + 1 < H THEN [t EXCEPT !.cur.y = t.cur.y + 1] ELSE t

linefeed(t) ==
    IF UAddOverflows(t.cur.y, 1) /\ overflow_checks THEN Panic(t)
    ELSE LET nxt == UAdd(t.cur.y, 1) IN
         IF nxt = t.scroll_range.bottom THEN scroll_up(t, 1)
         ELSE IF nxt < H THEN [t EXCEPT !.cur.y = nxt]
         ELSE t

\* linefeed n times; it is idempotent once it changes nothing
RECURSIVE LinefeedTimes(_, _)
LinefeedTimes(t, n) ==
    IF n = 0 \/ t.panicked THEN t
    ELSE CHOOSE res \in {IF u = t THEN t ELSE LinefeedTimes(u, n - 1) :
                            u \in {linefeed(t)}} : TRUE

\* a faulty wrap: an if where the loop is
WrapOnce(t) ==
    IF t.cur.x < W \/ "LINE_WRAP" \notin t.mode THEN t
    ELSE linefeed([t EXCEPT !.cur.x = t.cur.x - W])

\* the while loop of input: x -= width; linefeed() while x >= width
WrapLoop(t) ==
    IF t.cur.x < W \/ "LINE_WRAP" \notin t.mode THEN t
    ELSE LinefeedTimes([t EXCEPT !.cur.x = t.cur.x % W], t.cur.x \div W)

\* a faulty input: the cursor advances before the character is stored
input_shifted(t, c) ==
    [t EXCEPT !.buf[t.cur.y][(t.cur.x + 1) % W] = c,
              !.preceeding = Some(c),
              !.cur.x = (t.cur.x + 1) % W]

\* a faulty input: past the last column without LINE_WRAP the character is
\* written in the last column
input_clamped(t, c) ==
    LET u == WrapLoop(t)
        col == IF u.cur.x >= W THEN W - 1 ELSE u.cur.x
    IN  IF u.panicked THEN u
        ELSE IF u.cur.y >= H THEN Panic(u)
        ELSE [u EXCEPT !.buf[u.cur.y][col] = c,
                       !.preceeding = Some(c),
                       !.cur.x = col + 1]

\* a faulty input: the character is not remembered
input_forgets(t, c) ==
    LET u == WrapLoop(t) IN
    IF u.panicked THEN u
    ELSE IF u.cur.x >= W THEN u
    ELSE IF ~is_cursor_valid(u) THEN Panic(u)
    ELSE [u EXCEPT !.buf[u.cur.y][u.cur.x] = c,
                   !.cur.x = u.cur.x + 1]

input(t, c) ==
    LET u == WrapLoop(t) IN
    IF u.panicked THEN u
    ELSE IF u.cur.x >= W THEN u
    ELSE IF ~is_cursor_valid(u) THEN Panic(u)
    ELSE [u EXCEPT !.buf[u.cur.y][u.cur.x] = c,
                   !.preceeding = Some(c),
                   !.cur.x = u.cur.x + 1]

backspace(t) == IF t.cur.x > 0 THEN [t EXCEPT !.cur.x = t.cur.x - 1] ELSE t

newline(t) ==
    LET u == linefeed(t) IN
    IF u.panicked THEN u
    ELSE IF "LINE_FEED_NEW_LINE" \in u.mode THEN carriage_return(u) ELSE u

add_x(t, num) ==
    IF UAddOverflows(t.cur.x, num) /\ overflow_checks THEN Panic(t)
    ELSE [t EXCEPT !.cur.x = UAdd(t.cur.x, num)]

add_y(t, num) ==
    IF UAddOverflows(t.cur.y, num) /\ overflow_checks THEN Panic(t)
    ELSE LET u == [t EXCEPT !.cur.y = UAdd(t.cur.y, num)] IN
         IF u.cur.y < H THEN u ELSE Panic(u)

sub_x(t, num) ==
    IF t.cur.x >= num THEN [t EXCEPT !.cur.x = t.cur.x - num] ELSE Panic(t)

sub_y(t, num) ==
    IF t.cur.y >= num THEN [t EXCEPT !.cur.y = t.cur.y - num] ELSE Panic(t)

goto_x(t, num) == [t EXCEPT !.cur.x = num]

goto_y(t, num) ==
    LET u == [t EXCEPT !.cur.y = num] IN
    IF u.cur.y < H THEN u ELSE Panic(u)

goto(t, c) == [t EXCEPT !.cur = c]

\* a faulty clear: the first row is left as it is
clear_scr_rest(t, mode) == FillRows(t, 1, H)

clear_scr(t, mode) ==
    CASE mode = "All" -> FillRows(t, 0, H)
      [] mode = "Above" ->
            LET u == FillRows(t, 0, t.cur.y) IN
            IF u.panicked THEN u
            ELSE IF UAddOverflows(t.cur.x, 1) /\ overflow_checks THEN Panic(u)
            ELSE FillCols(u, t.cur.y, 0, UAdd(t.cur.x, 1))
      [] mode = "Below" ->
            IF UAddOverflows(t.cur.y, 1) /\ overflow_checks THEN Panic(t)
            ELSE LET u == FillRows(t, UAdd(t.cur.y, 1), H) IN
                 IF u.panicked THEN u
                 ELSE FillCols(u, t.cur.y, t.cur.x, W)
      [] mode = "Saved" -> t

clear_line(t, mode) ==
    CASE mode = "Right" -> FillCols(t, t.cur.y, t.cur.x, W)
      [] mode = "Left" ->
            IF UAddOverflows(t.cur.x, 1) /\ overflow_checks THEN Panic(t)
            ELSE FillCols(t, t.cur.y, 0, UAdd(t.cur.x, 1))
      [] mode = "All" -> FillCols(t, t.cur.y, 0, W)

insert_blank_lines(t, num) ==
    IF Contains(t.scroll_range, t.cur.y)
    THEN scroll_down_relative(t, t.cur.y, num)
    ELSE t

\* a faulty delete_lines: the origin is the region's top
delete_lines_top(t, num) ==
    IF Contains(t.scroll_range, t.cur.y) THEN scroll_up(t, num) ELSE t

delete_lines(t, num) ==
    IF Contains(t.scroll_range, t.cur.y)
    THEN scroll_up_relative(t, t.cur.y, num)
    ELSE t

Min(a, b) == IF a <= b THEN a ELSE b

insert_blank_chars(t, num) ==
    IF t.cur.y >= H THEN Panic(t)
    ELSE IF \E j \in Cols : j >= t.cur.x /\ j >= t.cur.x + num /\ j + num >= W
         THEN Panic(t)
    ELSE [t EXCEPT !.buf[t.cur.y] =
            [j \in Cols |-> IF j < t.cur.x THEN @[j]
                            ELSE IF j >= t.cur.x + num THEN @[j + num]
                            ELSE SP]]

erase_chars(t, num) ==
    IF UAddOverflows(t.cur.x, num) /\ overflow_checks THEN Panic(t)
    ELSE FillCols(t, t.cur.y, t.cur.x, Min(UAdd(t.cur.x, num), W))

\* a faulty delete: the characters are removed and the row is not refilled
delete_chars_shrink(t, num) ==
    IF t.cur.y >= H THEN Panic(t)
    ELSE [t EXCEPT !.buf[t.cur.y] =
            [j \in 0 .. (W - 1 - Min(num, W)) |->
                IF j < t.cur.x THEN @[j] ELSE @[j + num]]]

delete_chars(t, num) ==
    IF t.cur.y >= H THEN Panic(t)
    ELSE [t EXCEPT !.buf[t.cur.y] =
            [j \in Cols |-> IF j < t.cur.x THEN @[j]
                            ELSE IF j + num < W THEN @[j + num]
                            ELSE SP]]

save_cursor(t) == [t EXCEPT !.saved_cur = t.cur]

\* a faulty restore: the cursor goes home
restore_home(t) == [t EXCEPT !.cur = Cursor(0, 0)]

restore_cursor(t) == [t EXCEPT !.cur = t.saved_cur]

\* the TermMode flag a ModeInt switches, None for the ModeInts that switch none
ModeFlag(m) ==
    CASE m = "ShowCursor" -> Some("SHOW_CURSOR")
      [] m = "CursorKeys" -> Some("APP_CURSOR")
      [] m = "ReportMouseClicks" -> Some("MOUSE_REPORT_CLICK")
      [] m = "ReportMouseMotion" -> Some("MOUSE_MOTION")
      [] m = "ReportFocusInOut" -> Some("FOCUS_IN_OUT")
      [] m = "BracketedPaste" -> Some("BRACKETED_PASTE")
      [] m = "SgrMouse" -> Some("SGR_MOUSE")
      [] m = "LineWrap" -> Some("LINE_WRAP")
      [] m = "LineFeedNewLine" -> Some("LINE_FEED_NEW_LINE")
      [] m = "Origin" -> Some("ORIGIN")
      [] m = "Insert" -> Some("INSERT")
      [] OTHER -> None

unset_mode(t, m) ==
    IF m = "SwapScreenAndSetRestoreCursor" THEN restore_cursor(t)
    ELSE IF IsSome(ModeFlag(m))
         THEN [t EXCEPT !.mode = @ \ {Unwrap(ModeFlag(m))}]
    ELSE t

\* a faulty set_mode: the flag is removed
set_mode_off(t, m) == unset_mode(t, m)

set_mode(t, m) ==
    IF m = "SwapScreenAndSetRestoreCursor" THEN restore_cursor(t)
    ELSE IF IsSome(ModeFlag(m))
         THEN [t EXCEPT !.mode = @ \cup {Unwrap(ModeFlag(m))}]
    ELSE t

set_keyboard_app_mode(t) == [t EXCEPT !.mode = @ \cup {"APP_KEYPAD"}]

unset_keyboard_app_mode(t) == [t EXCEPT !.mode = @ \ {"APP_KEYPAD"}]

reverse_index(t) ==
    IF t.cur.y = t.scroll_range.top THEN scroll_down(t, 1)
    ELSE IF t.cur.y > 0 THEN sub_y(t, 1)
    ELSE t

\* unimplemented!("dectest")
dectest(t) == Panic(t)

\* ModeInt::from_primitive
from_primitive(private, num) ==
    IF private
    THEN CASE num = 1 -> Some("CursorKeys")
           [] num = 3 -> Some("DECCOLM")
           [] num = 6 -> Some("Origin")
           [] num = 7 -> Some("LineWrap")
           [] num = 12 -> Some("BlinkingCursor")
           [] num = 25 -> Some("ShowCursor")
           [] num = 1000 -> Some("ReportMouseClicks")
           [] num = 1002 -> Some("ReportMouseMotion")
           [] num = 1004 -> Some("ReportFocusInOut")
           [] num = 1006 -> Some("SgrMouse")
           [] num = 1049 -> Some("SwapScreenAndSetRestoreCursor")
           [] num = 2004 -> Some("BracketedPaste")
           [] OTHER -> None
    ELSE CASE num = 4 -> Some("Insert")
           [] num = 20 -> Some("LineFeedNewLine")
           [] OTHER -> None

(* --------------------------- impl Perform ------------------------------ *)
\* c as u8
AsU8(c) == c % 256

print(t, c) == input(t, AsU8(c))

execute(t, byte) ==
    CASE byte = BS -> backspace(t)
      [] byte = CR -> carriage_return(t)
      [] byte \in {LF, VT, FF} -> linefeed(t)
      [] byte = NEL -> newline(t)
      [] OTHER -> t

args_or(args, id, default) == IF id >= Len(args) THEN default ELSE args[id + 1]

\* intermediates.get(0).map(|b| *b == b'?').unwrap_or(false)
IsPrivate(intermediates) == Len(intermediates) > 0 /\ intermediates[1] = "?"

\* a faulty repeat: the character is put in once, whatever n is
InputOnce(t, c, n) == IF n <= 0 THEN t ELSE input(t, c)

\* the body of `for _ in 0..n { self.input(c) }`
RECURSIVE InputTimes(_, _, _)
InputTimes(t, c, n) ==
    IF n <= 0 \/ t.panicked THEN t
    ELSE CHOOSE res \in {InputTimes(u, c, n - 1) : u \in {input(t, c)}} : TRUE

\* args_or(id, 1) as usize - 1, then F applied; the subtraction may overflow
OneBased(args, id) == USub(args_or(args, id, 1), 1)
OneBasedOverflows(args, id) == USubOverflows(args_or(args, id, 1), 1)

csi_dispatch(t, args, intermediates, action) ==
    LET private == IsPrivate(intermediates)
        n == args_or(args, 0, 1)
    IN
    CASE action = "@" -> insert_blank_chars(t, n)
      [] action = "A" -> sub_y(t, n)
      [] action = "b" -> IF IsSome(t.preceeding)
                         THEN InputTimes(t, Unwrap(t.preceeding), n)
                         ELSE t
      [] action \in {"B", "e"} -> add_y(t, n)
      [] action \in {"C", "a"} -> add_x(t, n)
      [] action = "D" -> sub_x(t, n)
      [] action = "E" -> LET u == add_y(t, n) IN
                         IF u.panicked THEN u ELSE carriage_return(u)
      [] action = "F" -> LET u == sub_y(t, n) IN
                         IF u.panicked THEN u ELSE carriage_return(u)
      [] action \in {"G", "grave"} ->      \* 'G' | the grave accent (0x60)
            IF OneBasedOverflows(args, 0) /\ overflow_checks THEN Panic(t)
            ELSE goto_x(t, OneBased(args, 0))
      [] action \in {"H", "f"} ->
            IF (OneBasedOverflows(args, 0) \/ OneBasedOverflows(args, 1))
               /\ overflow_checks
            THEN Panic(t)
            ELSE goto(t, Cursor(OneBased(args, 1), OneBased(args, 0)))
      [] action = "J" ->
            LET a == args_or(args, 0, 0) IN
            CASE a = 0 -> clear_scr(t, "Below")
              [] a = 1 -> clear_scr(t, "Above")
              [] a = 2 -> clear_scr(t, "All")
              [] a = 3 -> clear_scr(t, "Saved")
              [] OTHER -> t
      [] action = "K" ->
            LET a == args_or(args, 0, 0) IN
            CASE a = 0 -> clear_line(t, "Right")
              [] a = 1 -> clear_line(t, "Left")
              [] a = 2 -> clear_line(t, "All")
              [] OTHER -> t
      [] action = "S" -> scroll_up(t, n)
      [] action = "T" -> scroll_down(t, n)
      [] action = "L" -> insert_blank_lines(t, n)
      [] action = "l" ->
            LET mode == from_primitive(private, args_or(args, 0, 0)) IN
            IF IsSome(mode) THEN unset_mode(t, Unwrap(mode)) ELSE t
      [] action = "M" -> delete_lines(t, n)
      [] action = "X" -> erase_chars(t, n)
      [] action = "P" -> delete_chars(t, n)
      [] action = "d" ->
            IF OneBasedOverflows(args, 0) /\ overflow_checks THEN Panic(t)
            ELSE goto_y(t, OneBased(args, 0))
      [] action = "h" ->
            LET mode == from_primitive(private, args_or(args, 0, 0)) IN
            IF IsSome(mode) THEN set_mode(t, Unwrap(mode)) ELSE t
      [] action = "r" ->
            IF private THEN t
            ELSE IF OneBasedOverflows(args, 0) /\ overflow_checks THEN Panic(t)
            ELSE [t EXCEPT !.scroll_range =
                    LineRange(OneBased(args, 0), args_or(args, 1, H))]
      [] action = "s" -> save_cursor(t)
      [] action = "u" -> restore_cursor(t)
      [] OTHER -> t

esc_dispatch(t, intermediates, byte) ==
    CASE byte = "D" -> add_y(t, 1)
      [] byte = "E" -> LET u == add_y(t, 1) IN
                       IF u.panicked THEN u ELSE goto_x(u, 0)
      [] byte = "M" -> reverse_index(t)
      [] byte = "7" -> save_cursor(t)
      [] byte = "8" -> IF Len(intermediates) > 0 /\ intermediates[1] = "#"
                       THEN dectest(t)
                       ELSE restore_cursor(t)
      [] byte = ">" -> set_keyboard_app_mode(t)
      [] byte = "=" -> unset_keyboard_app_mode(t)
      [] OTHER -> t


(* ------------------- TermSpec: the emulator alone ---------------------- *)
\* chars given to print: 'z' and U+00E9 (not ASCII)
PrintChars == {122, 233}

\* bytes given to execute: the handled C0/C1 codes and BEL (unhandled)
ExecBytes == {BS, CR, LF, VT, FF, NEL, 7}

ArgVals == 0 .. MaxArg

ModeCodes == {0, 1, 3, 4, 6, 7, 12, 20, 25, 1000, 1002, 1004, 1006, 1049, 2004}

\* finals taking (row, col) or (top, bottom)
CsiFinals2 == {"H", "f", "r"}

\* finals taking a mode code
CsiFinalsMode == {"h", "l"}

\* finals taking one count, index or selector ('m' stands for the unmatched finals)
CsiFinals1 == {"@", "A", "b", "B", "e", "C", "a", "D", "E", "F", "G", "grave",
               "J", "K", "S", "T", "L", "M", "X", "P", "d", "s", "u", "m"}

Args1 == {<<>>} \cup {<<a>> : a \in ArgVals}

Args2 == Args1 \cup {<<a, b>> : a \in ArgVals, b \in ArgVals}

ArgsMode == {<<>>} \cup {<<a>> : a \in ModeCodes}

EscBytes == {"D", "E", "M", "7", "8", ">", "=", "\\", "c"}

\* The byte streams that bring the emulator to the states TermSpec starts in:
\* an optional fill of the grid (CSI r;1 H and W prints per row, every cell
\* a letter of its own), CSI top+1;bottom r, CSI ?7 l, CSI 20 h and
\* CSI y+1;x+1 H.
CellChar(r, j) == 97 + r * W + j

\* (a step's result is bound to a value before the next step uses it)
RECURSIVE PrintRow(_, _, _)
PrintRow(t, r, j) ==
    IF j >= W THEN t
    ELSE CHOOSE res \in {PrintRow(v, r, j + 1) : v \in {print(t, CellChar(r, j))}} : TRUE

RECURSIVE FillGrid(_, _)
FillGrid(t, r) ==
    IF r >= H THEN t
    ELSE CHOOSE res \in
            {FillGrid(v, r + 1) :
                v \in {PrintRow(u, r, 0) :
                        u \in {csi_dispatch(t, <<r + 1, 1>>, <<>>, "H")}}} : TRUE

SetupRegions ==
    {<<>>} \cup {<<top + 1, bottom>> : top \in Rows, bottom \in 0 .. (H + 1)}

Setups ==
    [fill : BOOLEAN, region : SetupRegions, wrap : BOOLEAN, lfnl : BOOLEAN,
     x : 0 .. W, y : Rows]

SetupRegion(t, s) ==
    IF s.region = <<>> THEN t ELSE csi_dispatch(t, s.region, <<>>, "r")

SetupWrap(t, s) ==
    IF s.wrap THEN t ELSE csi_dispatch(t, <<7>>, <<"?">>, "l")

SetupLfnl(t, s) ==
    IF s.lfnl THEN csi_dispatch(t, <<20>>, <<>>, "h") ELSE t

SetupCursor(t, s) == csi_dispatch(t, <<s.y + 1, s.x + 1>>, <<>>, "H")

FilledTerm == FillGrid(InitTerm, 0)

Setup(s) ==
    CHOOSE res \in
        {SetupCursor(t4, s) :
            t4 \in {SetupLfnl(t3, s) :
                t3 \in {SetupWrap(t2, s) :
                    t2 \in {SetupRegion(t1, s) :
                        t1 \in {IF s.fill THEN FilledTerm ELSE InitTerm}}}}} : TRUE

NoCallback == [kind |-> "none"]

DriverIdle ==
    /\ max_loop = 0
    /\ draw_type = "Null"
    /\ ai_reply = None
    /\ kill_err = FALSE
    /\ child = "running"
    /\ pipe = <<>>
    /\ emitted = <<>>
    /\ stdin_log = <<>>
    /\ reader = "check"
    /\ chan = <<>>
    /\ killed = FALSE
    /\ published = <<>>
    /\ viewer = "run"
    /\ vchan = <<>>
    /\ viewed = <<>>
    /\ pc = "loop"
    /\ i = 0
    /\ proc_dead = FALSE
    /\ stored_map = None
    /\ received = <<>>
    /\ outcomes = <<>>
    /\ applied = <<>>
    /\ ai_log = <<>>
    /\ trace = <<>>

driverVars == <<max_loop, draw_type, ai_reply, kill_err, child, pipe, emitted, stdin_log, reader,
                chan, killed, published, viewer, vchan, viewed, pc, i,
                proc_dead, stored_map, received, outcomes, applied, ai_log,
                trace>>

TermInit ==
    /\ overflow_checks \in BOOLEAN
    /\ term_data \in {Setup(s) : s \in Setups}
    /\ fed = 0
    /\ last_cb = NoCallback
    /\ DriverIdle

\* the emulator is fed a callback, from the state the setup stream left
CanFeed == fed = 0 /\ ~term_data.panicked

Fed(t, cb) ==
    /\ term_data' = t
    /\ fed' = fed + 1
    /\ last_cb' = cb
    /\ UNCHANGED <<overflow_checks, driverVars>>

PrintCb ==
    /\ CanFeed
    /\ \E c \in PrintChars :
        Fed(print(term_data, c), [kind |-> "print", c |-> c])

ExecuteCb ==
    /\ CanFeed
    /\ \E b \in ExecBytes :
        Fed(execute(term_data, b), [kind |-> "execute", byte |-> b])

CsiCb ==
    /\ CanFeed
    /\ \E action \in CsiFinals1 \cup CsiFinals2 \cup CsiFinalsMode :
       \E intermediates \in {<<>>, <<"?">>} :
       \E args \in (IF action \in CsiFinals2 THEN Args2
                    ELSE IF action \in CsiFinalsMode THEN ArgsMode ELSE Args1) :
        /\ intermediates # <<>> => action \in CsiFinalsMode \cup {"r"}
        /\ Fed(csi_dispatch(term_data, args, intermediates, action),
               [kind |-> "csi", args |-> args, intermediates |-> intermediates,
                action |-> action])

EscCb ==
    /\ CanFeed
    /\ \E byte \in EscBytes :
       \E intermediates \in {<<>>, <<"#">>} :
        /\ intermediates # <<>> => byte = "8"
        /\ Fed(esc_dispatch(term_data, intermediates, byte),
               [kind |-> "esc", intermediates |-> intermediates, byte |-> byte])

\* the callback cb, as the parser makes it
Dispatch(t, cb) ==
    CASE cb.kind = "print" -> print(t, cb.c)
      [] cb.kind = "execute" -> execute(t, cb.byte)
      [] cb.kind = "csi" -> csi_dispatch(t, cb.args, cb.intermediates, cb.action)
      [] cb.kind = "esc" -> esc_dispatch(t, cb.intermediates, cb.byte)

Csi(args, action) ==
    [kind |-> "csi", args |-> args, intermediates |-> <<>>, action |-> action]

Esc(byte) == [kind |-> "esc", intermediates |-> <<>>, byte |-> byte]

Execute(byte) == [kind |-> "execute", byte |-> byte]

PrintC(c) == [kind |-> "print", c |-> c]

\* ESC 7 and CSI s; ESC 8 and CSI u
SaveCbs == {Esc("7"), Csi(<<>>, "s")}
RestoreCbs == {Esc("8"), Csi(<<>>, "u")}

\* cursor moves fed between a save and a restore: CSI C, CSI H and LF
MoveCbs == {Csi(<<1>>, "C"), Csi(<<>>, "H"), Execute(LF)}

\* cb and the callbacks before it are prints
ClearCbs == {Csi(<<1>>, "K"), Csi(<<1>>, "J")}

RECURSIVE OnlyPrints(_)
OnlyPrints(cb) ==
    /\ cb.kind = "print"
    /\ "after" \in DOMAIN cb => OnlyPrints(cb.after)

\* The longer byte streams: the callbacks that follow the callback fed last.
\*   ESC 7 | CSI s, then a cursor move, then ESC 8 | CSI u
\*   CR, then LF
\*   CSI 2 J, then CSI H
\*   W + 1 characters printed in a row, the later ones 'B', 'C', ...
\*   CSI MaxArg C, then a character
\*   W characters printed in a row, then CSI 1 K or CSI 1 J
Following(cb) ==
    IF OnlyPrints(cb) /\ fed <= W /\ term_data.cur.x = fed
    THEN {PrintC(65 + fed)} \cup (IF fed = W THEN ClearCbs ELSE {})
    ELSE IF fed = 1 /\ cb = Csi(<<MaxArg>>, "C") THEN {PrintC(122)}
    ELSE IF fed = 1 /\ cb \in SaveCbs THEN MoveCbs
    ELSE IF fed = 1 /\ cb = Execute(CR) THEN {Execute(LF)}
    ELSE IF fed = 1 /\ cb = Csi(<<2>>, "J") THEN {Csi(<<>>, "H")}
    ELSE IF fed = 2 /\ cb.kind # "print" /\ cb.after \in SaveCbs THEN RestoreCbs
    ELSE {}

\* the callback fed last, without the ones before it
Bare(cb) == [f \in DOMAIN cb \ {"after"} |-> cb[f]]

\* the emulator is fed the next callback of a longer stream
ScriptCb ==
    /\ fed >= 1
    /\ ~term_data.panicked
    /\ \E cb \in Following(last_cb) :
        Fed(Dispatch(term_data, cb), cb @@ [after |-> last_cb])

TermNext == PrintCb \/ ExecuteCb \/ CsiCb \/ EscCb \/ ScriptCb

TermSpec == TermInit /\ [][TermNext]_vars


(* ------------------- Spec: GameEnv::play and its threads ---------------- *)
\* enum Handle<T>
Valid(bytes) == [tag |-> "Valid", bytes |-> bytes]
Zero == [tag |-> "Zero", bytes |-> <<>>]
Panicked == [tag |-> "Panicked", bytes |-> <<>>]

\* what one read() of the child's stdout returns: n bytes; a read that fills
\* the buffer is kept by its length alone
Unit(bytes) == [n |-> Len(bytes), bytes |-> bytes]
FullUnit == [n |-> BUFSIZE, bytes |-> <<>>]

\* the child's k-th write (k from 0) is "a" and "b\nc" in turn, or a block of
\* BUFSIZE bytes; the driver treats every chunk alike
ChunkUnits(k) ==
    {IF k % 2 = 0 THEN Unit(<<97>>) ELSE Unit(<<98, LF, 99>>), FullUnit}

\* what the AI returns at every call: nothing or b"q" (the reply reaches the
\* child's stdin alone, and the child writes what it likes whatever it reads)
AiReturns == {None, Some(<<113>>)}

\* vte::Parser::advance in its ground state: a printable ASCII byte is
\* printed, a C0 control is executed (ESC, CAN, SUB and bytes >= 0x80 leave
\* the ground state and are not fed)
ParserAdvance(t, byte) ==
    CASE 32 <= byte /\ byte <= 127 -> print(t, byte)
      [] byte < 32 /\ byte \notin {24, 26, 27} -> execute(t, byte)

\* for c in r { parser.advance(&mut self.term_data, *c) }
RECURSIVE AdvanceAll(_, _)
AdvanceAll(t, bytes) ==
    IF bytes = <<>> \/ t.panicked THEN t
    ELSE CHOOSE res \in {AdvanceAll(u, Tail(bytes)) :
                            u \in {ParserAdvance(t, Head(bytes))}} : TRUE

\* str::from_utf8(bytes) is Ok (exact for the ASCII bytes the child writes)
IsUtf8(bytes) == \A k \in 1 .. Len(bytes) : bytes[k] < 128

\* a faulty kill: no signal is sent
KillNoop(c) == c

\* Child::kill: SIGKILL to a child that was never waited for; it succeeds on
\* a running process and on a zombie alike
KillChild(c) == IF c \in {"running", "closed"} THEN "killed" ELSE c

\* self.my_proc.kill() returns Err, and unwrap() panics
KillPanics(c) == kill_err /\ c \notin {"running", "closed"}

\* stdin.write_all(buf) is Ok while the child lives
WriteOk(c) == c \in {"running", "closed"}

\* read() on the child's stdout returns 0
AtEof == pipe = <<>> /\ child # "running"

\* (the bytes the child writes are printed or executed without any usize
\* arithmetic near its limits, so play runs alike with and without overflow
\* checks; TermSpec starts with either)
PlayStart ==
    /\ overflow_checks = FALSE
    /\ max_loop \in 0 .. MaxLoop
    /\ draw_type \in {"Null", "Terminal"}
    /\ ai_reply \in AiReturns
    /\ term_data = InitTerm
    /\ fed = 0
    /\ last_cb = NoCallback
    /\ child = "running"
    /\ pipe = <<>>
    /\ emitted = <<>>
    /\ stdin_log = <<>>
    /\ reader = "check"
    /\ chan = <<>>
    /\ killed = FALSE
    /\ published = <<>>
    /\ viewer = "run"
    /\ vchan = <<>>
    /\ viewed = <<>>
    /\ pc = "loop"
    /\ i = 0
    /\ proc_dead = FALSE
    /\ stored_map = None
    /\ received = <<>>
    /\ outcomes = <<>>
    /\ applied = <<>>
    /\ ai_log = <<>>
    /\ trace = <<>>

\* play on a platform whose kill of a child never waited for succeeds
Init == kill_err = FALSE /\ PlayStart

\* play on either kind of platform
KillInit == kill_err \in BOOLEAN /\ PlayStart

constVars == <<overflow_checks, max_loop, draw_type, ai_reply, kill_err, fed,
               last_cb>>
childVars == <<child, pipe, emitted>>
readerVars == <<reader, chan, killed, published>>
viewerVars == <<viewer, vchan, viewed>>
playVars == <<pc, i, proc_dead, stored_map, received, outcomes, applied,
              ai_log, trace, term_data, stdin_log>>

(* the child process *)
ChildWrite ==
    /\ child = "running"
    /\ Len(emitted) < MaxChunks
    /\ \E u \in ChunkUnits(Len(emitted)) :
        /\ pipe' = Append(pipe, u)
        /\ emitted' = Append(emitted, u)
    /\ UNCHANGED <<child, constVars, readerVars, viewerVars, playVars>>

\* the child closes its stdout and lives on
ChildClose ==
    /\ child = "running"
    /\ child' = "closed"
    /\ UNCHANGED <<pipe, emitted, constVars, readerVars, viewerVars, playVars>>

ChildExit ==
    /\ child \in {"running", "closed"}
    /\ child' = "exited"
    /\ UNCHANGED <<pipe, emitted, constVars, readerVars, viewerVars, playVars>>

(* ProcHandler::run, the reader thread *)
\* txclone.send(h).ok()
Publish(h) ==
    /\ chan' = Append(chan, h)
    /\ published' = Append(published, h)

\* a faulty reader: the loop goes on after every message
AfterPublishLoop(h) == "check"

\* the arm's end: Valid falls through to the while, Zero breaks, Panicked
\* is followed by panic!
AfterPublish(h) ==
    CASE h.tag = "Valid" -> "check"
      [] h.tag = "Zero" -> "done"
      [] h.tag = "Panicked" -> "panicked"

\* while !ac.load(Ordering::Relaxed)
ReaderCheck ==
    /\ reader = "check"
    /\ reader' = IF killed THEN "done" ELSE "read"
    /\ UNCHANGED <<chan, killed, published, constVars, childVars, viewerVars,
                   playVars>>

\* proc_reader.read(&mut readbuf) returns Ok(n)
ReaderRead ==
    /\ reader = "read"
    /\ pipe # <<>> \/ AtEof
    /\ IF pipe = <<>>
       THEN /\ Publish(Zero)
            /\ reader' = AfterPublish(Zero)
            /\ pipe' = pipe
       ELSE /\ pipe' = Tail(pipe)
            /\ IF Head(pipe).n = BUFSIZE
               THEN Publish(Panicked) /\ reader' = AfterPublish(Panicked)
               ELSE /\ Publish(Valid(Head(pipe).bytes))
                    /\ reader' = AfterPublish(Valid(Head(pipe).bytes))
    /\ UNCHANGED <<killed, child, emitted, constVars, viewerVars, playVars>>

\* proc_reader.read(&mut readbuf) returns Err
ReaderReadErr ==
    /\ reader = "read"
    /\ Publish(Panicked)
    /\ reader' = AfterPublish(Panicked)
    /\ UNCHANGED <<killed, constVars, childVars, viewerVars, playVars>>

(* the viewer thread *)
\* EmptyViewer::run: thread::spawn(move || {})
EmptyViewerRun ==
    /\ draw_type = "Null"
    /\ viewer = "run"
    /\ viewer' = "done"
    /\ UNCHANGED <<vchan, viewed, constVars, childVars, readerVars, playVars>>

\* TerminalViewer::run: one turn of while let Ok(game_input) = receiver.recv()
TerminalViewerRecv ==
    /\ draw_type = "Terminal"
    /\ viewer = "run"
    /\ vchan # <<>>
    /\ vchan' = Tail(vchan)
    /\ viewed' = Append(viewed, Head(vchan))
    /\ viewer' = CASE Head(vchan).tag = "Valid" ->
                        IF IsUtf8(Head(vchan).bytes) THEN "run" ELSE "panicked"
                   [] Head(vchan).tag = "Zero" -> "done"
                   [] Head(vchan).tag = "Panicked" -> "panicked"
    /\ UNCHANGED <<constVars, childVars, readerVars, playVars>>

(* GameEnv::play, the driver *)
\* a faulty send: the message overtakes the queued ones
ViewerSendFront(q, h) == IF draw_type = "Terminal" THEN <<h>> \o q ELSE q

\* send_or!(viewer, h): EmptyViewer drops it, TerminalViewer queues it
ViewerSend(q, h) == IF draw_type = "Terminal" THEN Append(q, h) ELSE q

\* a faulty drop: the handler is dropped without killing the child
DropNoKill(c) == c

\* impl Drop for ProcHandler, run when play returns or unwinds
DropKill(c) == KillChild(c)

\* a faulty send_or!: an Err of send_bytes ends play
send_or_abort(ok) == IF ok THEN "loop" ELSE "unwound"

\* send_or!(to, handle): an Err of send_bytes is logged, and play goes on
send_or(ok) == "loop"

\* a faulty do_action!: a snapshot that is held is delivered in place of evt
DoActionFlush(evt, map) ==
    /\ ai_log' = Append(ai_log,
                        IF IsSome(stored_map)
                        THEN [evt |-> "Changed", map |-> stored_map, turn |-> i,
                              at |-> "loop"]
                        ELSE [evt |-> evt, map |-> map, turn |-> i,
                              at |-> "loop"])
    /\ stdin_log' = stdin_log
    /\ pc' = pc

\* do_action!(evt): ai.action(evt, i), and its bytes written to the child
DoAction(evt, map) ==
    /\ ai_log' = Append(ai_log, [evt |-> evt, map |-> map, turn |-> i,
                                 at |-> "loop"])
    /\ stdin_log' = IF IsSome(ai_reply)
                    THEN Append(stdin_log, [bytes |-> Unwrap(ai_reply),
                                            ok |-> WriteOk(child)])
                    ELSE stdin_log
    /\ pc' = IF IsSome(ai_reply) THEN send_or(WriteOk(child)) ELSE pc

\* a faulty abort: the loop is left as by break, and the epilogue follows
UnwindBreak ==
    /\ pc' = "kill"
    /\ child' = child
    /\ trace' = trace

\* play unwinds by panic: self is dropped; a panic of the kill in drop, while
\* the first panic unwinds, aborts the process
Unwind ==
    /\ pc' = IF KillPanics(child) THEN "aborted" ELSE "unwound"
    /\ child' = DropKill(child)
    /\ trace' = Append(trace, "drop")

\* a faulty delivery: the snapshot is kept after it was delivered
StoredKept == stored_map

\* stored_map after do_action!(Changed(map)): stored_map = None
StoredAfterDelivery == None

\* a faulty final turn: the index of the last iteration
FinalTurnLast == max_loop - 1

\* the turn of the call after the loop: self.max_loop
FinalTurn == max_loop

\* a faulty epilogue: the child is killed whether or not the game ended
AfterLoopAlways == "kill"

\* after the loop: if !proc_dead { kill ... }, then the joins
AfterLoop == IF proc_dead THEN "join_reader" ELSE "kill"

\* a faulty channel: the newest message is received first
RecvLast(q) == q[Len(q)]

\* recv_timeout yields Ok(rec): the oldest message of the channel
RecvHead(q) == Head(q)
RecvRest(q) == Tail(q)

\* a faulty loop: proc_dead does not break it
InLoopOn == pc = "loop" /\ i < max_loop

InLoop == pc = "loop" /\ i < max_loop /\ ~proc_dead

\* a faulty store: an undelivered snapshot is kept, the new one is dropped
StoreFirst(old, map) == IF IsSome(old) THEN old ELSE Some(map)

\* ActionResult::Changed(map) => stored_map = Some(map)
StoreChanged(old, map) == Some(map)

RecvPanicked ==
    /\ InLoop
    /\ chan # <<>> /\ RecvHead(chan).tag = "Panicked"
    /\ chan' = RecvRest(chan)
    /\ received' = Append(received, RecvHead(chan))
    /\ outcomes' = Append(outcomes, "Panicked")
    /\ vchan' = ViewerSend(vchan, Panicked)
    /\ Unwind
    /\ UNCHANGED <<i, proc_dead, stored_map, applied, ai_log, term_data,
                   stdin_log, pipe, emitted, reader, killed, published,
                   viewer, viewed, constVars>>

RecvZero ==
    /\ InLoop
    /\ chan # <<>> /\ RecvHead(chan).tag = "Zero"
    /\ chan' = RecvRest(chan)
    /\ received' = Append(received, RecvHead(chan))
    /\ outcomes' = Append(outcomes, "Zero")
    /\ vchan' = ViewerSend(vchan, Zero)
    /\ proc_dead' = TRUE
    /\ DoAction("GameEnded", None)
    /\ i' = i + 1
    /\ UNCHANGED <<stored_map, applied, trace, term_data, childVars,
                   reader, killed, published, viewer, viewed, constVars>>

RecvValid ==
    /\ InLoop
    /\ chan # <<>> /\ RecvHead(chan).tag = "Valid"
    /\ chan' = RecvRest(chan)
    /\ received' = Append(received, RecvHead(chan))
    /\ outcomes' = Append(outcomes, "Valid")
    /\ vchan' = ViewerSend(vchan, Valid(RecvHead(chan).bytes))
    /\ applied' = applied \o RecvHead(chan).bytes
    /\ term_data' = AdvanceAll(term_data, RecvHead(chan).bytes)
    /\ IF term_data'.panicked
       THEN /\ Unwind
            /\ UNCHANGED <<i, stored_map>>
       ELSE /\ stored_map' = StoreChanged(stored_map, ret_screen(term_data'))
            /\ i' = i + 1
            /\ UNCHANGED <<pc, child, trace>>
    /\ UNCHANGED <<proc_dead, ai_log, stdin_log, pipe, emitted, reader,
                   killed, published, viewer, viewed, constVars>>

\* a faulty channel: the receiver finds no sender
SendersNone == FALSE

\* the handler keeps its tx, so a sender is alive as long as play runs
SendersAlive == pc \notin {"returned", "unwound", "aborted"} \/ reader \in {"check", "read"}

\* recv_timeout yields Err: Timeout, or Disconnected when no sender is left
RecvTimeout ==
    /\ InLoop
    /\ chan = <<>>
    /\ outcomes' = Append(outcomes, IF SendersAlive THEN "Timeout"
                                    ELSE "Disconnected")
    /\ IF ~SendersAlive
       THEN /\ Unwind
            /\ UNCHANGED <<i, stored_map, ai_log, stdin_log>>
       ELSE /\ IF IsSome(stored_map)
               THEN DoAction("Changed", stored_map)
               ELSE DoAction("NotChanged", None)
            /\ stored_map' = StoredAfterDelivery
            /\ i' = i + 1
            /\ UNCHANGED <<child, trace>>
    /\ UNCHANGED <<proc_dead, received, applied, term_data, pipe, emitted,
                   readerVars, viewerVars, constVars>>

\* the for loop ends: max_loop iterations were made, or proc_dead breaks it
LoopEnd ==
    /\ pc = "loop"
    /\ i >= max_loop \/ proc_dead
    /\ pc' = AfterLoop
    /\ UNCHANGED <<i, proc_dead, stored_map, received, outcomes, applied,
                   ai_log, trace, term_data, stdin_log, childVars, readerVars,
                   viewerVars, constVars>>

\* self.process.kill()
Kill ==
    /\ pc = "kill"
    /\ child' = KillChild(child)
    /\ trace' = Append(trace, "kill")
    /\ IF KillPanics(child)
       THEN killed' = killed /\ pc' = "aborted"
       ELSE killed' = TRUE /\ pc' = "vzero"
    /\ UNCHANGED <<i, proc_dead, stored_map, received, outcomes, applied,
                   ai_log, term_data, stdin_log, pipe, emitted, reader, chan,
                   published, viewerVars, constVars>>

\* send_or!(viewer, Handle::Zero)
SendZero ==
    /\ pc = "vzero"
    /\ vchan' = ViewerSend(vchan, Zero)
    /\ trace' = Append(trace, "viewer_zero")
    /\ pc' = "final"
    /\ UNCHANGED <<i, proc_dead, stored_map, received, outcomes, applied,
                   ai_log, term_data, stdin_log, childVars, readerVars,
                   viewer, viewed, constVars>>

\* let _ = ai.action(ActionResult::GameEnded, self.max_loop): what the AI
\* returns is dropped
FinalAction ==
    /\ pc = "final"
    /\ ai_log' = Append(ai_log, [evt |-> "GameEnded", map |-> None,
                                 turn |-> FinalTurn, at |-> "epilogue"])
    /\ trace' = Append(trace, "final_action")
    /\ pc' = "join_reader"
    /\ UNCHANGED <<i, proc_dead, stored_map, received, outcomes, applied,
                   term_data, stdin_log, childVars, readerVars, viewerVars,
                   constVars>>

\* proc_handle.join().unwrap()
JoinReader ==
    /\ pc = "join_reader"
    /\ reader \in {"done", "panicked"}
    /\ IF reader = "panicked"
       THEN Unwind
       ELSE pc' = "join_viewer" /\ UNCHANGED <<child, trace>>
    /\ UNCHANGED <<i, proc_dead, stored_map, received, outcomes, applied,
                   ai_log, term_data, stdin_log, pipe, emitted, readerVars,
                   viewerVars, constVars>>

\* viewer_handle.join().unwrap(), then play returns and self is dropped
JoinViewer ==
    /\ pc = "join_viewer"
    /\ viewer \in {"done", "panicked"}
    /\ IF viewer = "panicked"
       THEN Unwind
       ELSE /\ pc' = IF KillPanics(child) THEN "unwound" ELSE "returned"
            /\ child' = DropKill(child)
            /\ trace' = Append(trace, "drop")
    /\ UNCHANGED <<i, proc_dead, stored_map, received, outcomes, applied,
                   ai_log, term_data, stdin_log, pipe, emitted, readerVars,
                   viewerVars, constVars>>

Next ==
    \/ ChildWrite \/ ChildClose \/ ChildExit
    \/ ReaderCheck \/ ReaderRead \/ ReaderReadErr
    \/ EmptyViewerRun \/ TerminalViewerRecv
    \/ RecvPanicked \/ RecvZero \/ RecvValid \/ RecvTimeout
    \/ LoopEnd \/ Kill \/ SendZero \/ FinalAction \/ JoinReader \/ JoinViewer

Spec == Init /\ [][Next]_vars

KillSpec == KillInit /\ [][Next]_vars

\* the threads run: the scheduler gives each of them time again and again
ReaderStep == ReaderCheck \/ ReaderRead
ViewerStep == EmptyViewerRun \/ TerminalViewerRecv
DriverStep ==
    \/ RecvPanicked \/ RecvZero \/ RecvValid \/ RecvTimeout
    \/ LoopEnd \/ Kill \/ SendZero \/ FinalAction \/ JoinReader \/ JoinViewer

\* the child and the read errors are the environment's: no fairness on them
FairSpec ==
    /\ Spec
    /\ WF_vars(ReaderStep)
    /\ WF_vars(ViewerStep)
    /\ WF_vars(DriverStep)

(* ------------------------------ properties ----------------------------- *)
Range(s) == {s[k] : k \in 1 .. Len(s)}
IsPrefix(s, t) == Len(s) <= Len(t) /\ SubSeq(t, 1, Len(s)) = s
Last(s) == s[Len(s)]

\* the byte strings of the Valid messages of hs, in order
ValidChunks(hs) ==
    LET sel == SelectSeq(hs, LAMBDA h : h.tag = "Valid") IN
    [k \in 1 .. Len(sel) |-> sel[k].bytes]

RECURSIVE Flatten(_)
Flatten(chunks) ==
    IF chunks = <<>> THEN <<>> ELSE Head(chunks) \o Flatten(Tail(chunks))

\* the byte strings the child wrote, in order
EmittedChunks == [k \in 1 .. Len(emitted) |-> emitted[k].bytes]

\* the in-loop AI calls made with turn number turn
LoopCalls(turn) ==
    {k \in 1 .. Len(ai_log) : ai_log[k].at = "loop" /\ ai_log[k].turn = turn}

EpilogueCalls == {k \in 1 .. Len(ai_log) : ai_log[k].at = "epilogue"}

\* iterations are counted from 0: outcomes[e] is the outcome of iteration e-1.
\* A burst ends at e when iteration e-1 received bytes and iteration e timed out.
BurstEnds ==
    {e \in 1 .. (Len(outcomes) - 1) :
        outcomes[e] = "Valid" /\ outcomes[e + 1] = "Timeout"}

BurstStart(e) ==
    CHOOSE s \in 1 .. e :
        /\ \A j \in s .. e : outcomes[j] = "Valid"
        /\ s = 1 \/ outcomes[s - 1] # "Valid"

\* the messages received in the first e iterations
ReceivedUpTo(e) ==
    SubSeq(received, 1,
           Cardinality({j \in 1 .. e : outcomes[j] # "Timeout"}))

\* the grid after every chunk received in the first e iterations was applied
GridAfter(e) ==
    ret_screen(AdvanceAll(InitTerm, Flatten(ValidChunks(ReceivedUpTo(e)))))

\* C1: when one or more consecutive iterations receive bytes and the next
\* iteration times out, the AI is called exactly once for the burst, in the
\* timeout iteration and with that iteration's index as turn, with Changed
\* carrying the grid after all of the burst's chunks; no iteration of the
\* burst calls the AI.
C1_Coalescing ==
    /\ \A e \in BurstEnds :
        /\ Cardinality(LoopCalls(e)) = 1
        /\ \A k \in LoopCalls(e) :
            /\ ai_log[k].evt = "Changed"
            /\ ai_log[k].map = Some(GridAfter(e))
        /\ \A j \in BurstStart(e) .. e : LoopCalls(j - 1) = {}
    /\ Cardinality({k \in 1 .. Len(ai_log) : ai_log[k].evt = "Changed"})
         = Cardinality(BurstEnds)

\* a burst of two chunks, then a timeout that delivered its grid
C1_Witness ==
    \E e \in BurstEnds : BurstStart(e) < e /\ LoopCalls(e) # {}

\* the AI returned b"q" at every call of the loop
AlwaysQ ==
    /\ Len(stdin_log) =
         Cardinality({k \in 1 .. Len(ai_log) : ai_log[k].at = "loop"})
    /\ \A k \in 1 .. Len(stdin_log) : stdin_log[k].bytes = <<113>>

\* max_loop = 3, the child wrote "a" and closed, the driver received both
Scenario ==
    /\ max_loop = 3
    /\ emitted = <<Unit(<<97>>)>>
    /\ received = <<Valid(<<97>>), Zero>>
    /\ AlwaysQ

\* the grid with 'a' at (0, 0) and blanks elsewhere
GridA == [r \in Rows |-> [j \in Cols |-> IF r = 0 /\ j = 0 THEN 97 ELSE SP]]

LoopCall(evt, map, turn) ==
    [evt |-> evt, map |-> map, turn |-> turn, at |-> "loop"]

\* C2 as stated: in the scenario the AI is called at turn 0 with Changed
\* whose grid has 'a' at (0, 0), then at turn 1 with GameEnded, and the loop
\* ends.
C2_AsStated ==
    (Scenario /\ pc # "loop") =>
        ai_log = <<LoopCall("Changed", Some(GridA), 0),
                   LoopCall("GameEnded", None, 1)>>

\* C2: in the scenario the AI is never called with Changed at turn 0: the
\* grid with 'a' at (0, 0) is delivered by the first timeout after the chunk.
\* When the chunk is received in iteration 0, iteration 1 times out and
\* iteration 2 receives the close, the AI is called at turn 1 with Changed
\* and that grid, then at turn 2 with GameEnded, and the loop ends without
\* the forced kill.
C2_Scenario ==
    Scenario =>
        /\ \A k \in 1 .. Len(ai_log) :
            ai_log[k].evt = "Changed" =>
                ai_log[k].turn >= 1 /\ ai_log[k].map = Some(GridA)
        /\ outcomes = <<"Valid", "Timeout", "Zero">> =>
            /\ ai_log = <<LoopCall("Changed", Some(GridA), 1),
                          LoopCall("GameEnded", None, 2)>>
            /\ proc_dead
            /\ pc \notin {"kill", "vzero", "final"}

C2_Witness ==
    Scenario /\ outcomes = <<"Valid", "Timeout", "Zero">> /\ pc = "returned"

\* C3: a callback fed to an emulator whose cursor is inside the grid leaves
\* the cursor inside the grid (0 <= y < H, 0 <= x < W).
C3_CursorInGrid ==
    [][(is_cursor_valid(term_data) /\ ~term_data'.panicked)
          => is_cursor_valid(term_data')]_vars

ScrollRangeValid(t) ==
    /\ 0 <= t.scroll_range.top
    /\ t.scroll_range.top < t.scroll_range.bottom
    /\ t.scroll_range.bottom <= H

\* C4: a callback fed to an emulator whose scroll region is valid leaves it
\* valid (0 <= top < bottom <= H).
C4_ScrollRangeValid ==
    [][(ScrollRangeValid(term_data) /\ ~term_data'.panicked)
          => ScrollRangeValid(term_data')]_vars

\* C5: when play has returned or unwound by panic, the child was killed by
\* the drop of the process handler and is no longer alive.
C5_ChildKilled ==
    pc \in {"returned", "unwound"} =>
        /\ child \in {"killed", "exited"}
        /\ trace # <<>> /\ Last(trace) = "drop"

\* play unwound on Panicked and the drop killed the living child
C5_Witness ==
    /\ pc = "unwound"
    /\ outcomes # <<>> /\ Last(outcomes) = "Panicked"
    /\ child = "killed"
    /\ trace = <<"drop">>

C7_Order ==
    /\ IsPrefix(received, published)
    /\ IsPrefix(ValidChunks(published), EmittedChunks)
    /\ applied = Flatten(ValidChunks(received))
    /\ ~term_data.panicked => term_data = AdvanceAll(InitTerm, applied)

\* two different chunks were received and applied
C7_Witness ==
    /\ ValidChunks(received) = <<(<<97>>), <<98, LF, 99>>>>
    /\ applied = <<97, 98, LF, 99>>

\* C8 as stated: what the viewer has consumed is a prefix of what the driver
\* received.
C8_ViewerPrefix == IsPrefix(viewed, received)

\* the Zero the driver sends the viewer after the forced kill
ForcedZero == IF "viewer_zero" \in Range(trace) THEN <<Zero>> ELSE <<>>

\* C8: what the viewer has consumed is a prefix of what the driver received,
\* followed by the one Zero the driver sends after the forced kill.
C8_ViewerOrder == IsPrefix(viewed, received \o ForcedZero)

\* the viewer consumed two chunks and the Zero of the forced kill
C8_Witness ==
    /\ draw_type = "Terminal"
    /\ Len(received) = 2
    /\ viewed = received \o <<Zero>>

\* C9: the turn numbers of the AI calls strictly increase; a call of the
\* loop carries its iteration's index, and iteration j calls the AI exactly
\* once when it timed out or received Zero and not at all otherwise; the call
\* after the loop carries max_loop and is the last one.
C9_Turns ==
    /\ \A k \in 1 .. (Len(ai_log) - 1) : ai_log[k].turn < ai_log[k + 1].turn
    /\ \A k \in 1 .. Len(ai_log) :
        IF ai_log[k].at = "loop"
        THEN /\ ai_log[k].turn \in 0 .. (max_loop - 1)
             /\ ai_log[k].turn < Len(outcomes)
        ELSE /\ ai_log[k].turn = max_loop
             /\ k = Len(ai_log)
    /\ \A j \in 1 .. Len(outcomes) :
        Cardinality(LoopCalls(j - 1)) =
            IF outcomes[j] \in {"Timeout", "Zero"} THEN 1 ELSE 0

\* three calls, the last one after the loop
C9_Witness ==
    /\ Len(ai_log) >= 3
    /\ Last(ai_log).at = "epilogue"
    /\ ai_log[1].turn > 0

\* the steps after the loop, in the order they were made
EpilogueTrace == SelectSeq(trace, LAMBDA a : a # "drop")

\* C10: when the loop ended with proc_dead false, the child is killed, then
\* the viewer is sent Zero, then the AI is called once more with GameEnded
\* and turn max_loop; when it ended with proc_dead true none of these is
\* done.
C10_Epilogue ==
    /\ IsPrefix(EpilogueTrace, <<"kill", "viewer_zero", "final_action">>)
    /\ proc_dead => EpilogueTrace = <<>> /\ EpilogueCalls = {} /\ ~killed
    /\ (~proc_dead /\ pc \in {"join_reader", "join_viewer", "returned"}) =>
        /\ EpilogueTrace = <<"kill", "viewer_zero", "final_action">>
        /\ child \in {"killed", "exited"}
        /\ Cardinality(EpilogueCalls) = 1
        /\ Last(ai_log) = [evt |-> "GameEnded", map |-> None,
                           turn |-> max_loop, at |-> "epilogue"]
        /\ draw_type = "Terminal" => Last(viewed \o vchan) = Zero

\* play returned after the forced kill, the viewer having drawn a chunk
C10_Witness ==
    /\ pc = "returned"
    /\ ~proc_dead
    /\ draw_type = "Terminal"
    /\ Len(viewed) >= 2

\* the callback fed last is a CSI with one of the finals
LastCsi(finals) == last_cb.kind = "csi" /\ last_cb.action \in finals

\* the callback fed last is an ESC with one of the final bytes
LastEsc(bytes) == last_cb.kind = "esc" /\ last_cb.byte \in bytes

\* C11: CSI A, B/e, D, E, F, d and ESC D, E, with any argument and from any
\* cursor position, never end in a failed assertion.
C11_MovesNeverPanic ==
    (LastCsi({"A", "B", "e", "D", "E", "F", "d"}) \/ LastEsc({"D", "E"}))
        => ~term_data.panicked

\* ESC 7 or CSI s with any arguments; ESC 8 or CSI u with any arguments
IsSave(cb) ==
    \/ cb.kind = "csi" /\ cb.action = "s"
    \/ cb.kind = "esc" /\ cb.byte = "7"

IsRestore(cb) ==
    \/ cb.kind = "csi" /\ cb.action = "u"
    \/ cb.kind = "esc" /\ cb.byte = "8" /\ cb.intermediates = <<>>

\* C12: a save (ESC 7, CSI s) records the cursor position and leaves the
\* cursor alone, no other callback changes the record, and a restore (ESC 8,
\* CSI u) sets the cursor to the record; so a restore after a save and any
\* callbacks but a save puts the cursor where it was when the save ran.
C12_SaveRestore ==
    [][(fed' = fed + 1 /\ ~term_data'.panicked) =>
        /\ IF IsSave(last_cb')
           THEN /\ term_data'.saved_cur = term_data.cur
                /\ term_data'.cur = term_data.cur
           ELSE term_data'.saved_cur = term_data.saved_cur
        /\ IsRestore(last_cb') => term_data'.cur = term_data.saved_cur]_vars

\* ESC 7 at column 1, CSI C to column 2, CSI u: the cursor is at column 1
C12_Witness ==
    /\ fed = 3
    /\ Bare(last_cb) = Csi(<<>>, "u")
    /\ Bare(last_cb.after) = Csi(<<1>>, "C")
    /\ last_cb.after.after = Esc("7")
    /\ term_data.cur = Cursor(1, 1)
    /\ term_data.saved_cur = Cursor(1, 1)

\* rows top .. bottom-1 of buf moved up by one row, the last of them blank
RegionUpOne(buf, top, bottom) ==
    [r \in Rows |->
        IF top <= r /\ r < bottom - 1 THEN buf[r + 1]
        ELSE IF top <= r /\ r = bottom - 1 THEN BlankRow
        ELSE buf[r]]

\* what LF makes of t, the cursor being at column 0
AfterLf(t) ==
    IF t.cur.y + 1 = t.scroll_range.bottom
    THEN [t EXCEPT !.buf = RegionUpOne(t.buf, t.scroll_range.top,
                                       t.scroll_range.bottom)]
    ELSE IF t.cur.y + 1 < H THEN [t EXCEPT !.cur.y = t.cur.y + 1]
    ELSE t

\* C13: with LINE_FEED_NEW_LINE off, CR puts the cursor at column 0 and
\* changes nothing else, and the LF after it scrolls the scroll region up by
\* one row when y+1 is the region's bottom, else moves the cursor to (0, y+1)
\* when y+1 < H, else changes nothing: the cursor stays at column 0 and the
\* grid changes by the scroll alone.
C13_CrLf ==
    [][(fed' = fed + 1 /\ "LINE_FEED_NEW_LINE" \notin term_data.mode) =>
        /\ (fed = 0 /\ last_cb' = Execute(CR)) =>
              term_data' = [term_data EXCEPT !.cur.x = 0]
        /\ (fed = 1 /\ last_cb = Execute(CR) /\ Bare(last_cb') = Execute(LF)) =>
              /\ term_data.cur.x = 0
              /\ term_data' = AfterLf(term_data)]_vars

\* CR LF on the last row of the filled grid: the rows moved up
C13_Witness ==
    /\ fed = 2
    /\ Bare(last_cb) = Execute(LF)
    /\ last_cb.after = Execute(CR)
    /\ "LINE_FEED_NEW_LINE" \notin term_data.mode
    /\ term_data.cur = Cursor(0, H - 1)
    /\ term_data.scroll_range = LineRange(0, H)
    /\ term_data.buf[0][0] = CellChar(1, 0)
    /\ term_data.buf[H - 1] = BlankRow

\* the stream fed so far ends with CSI 2 J, CSI H
ClearedHome ==
    /\ fed = 2
    /\ Bare(last_cb) = Csi(<<>>, "H")
    /\ last_cb.after = Csi(<<2>>, "J")

\* C14: after CSI 2 J and then CSI H every cell of the grid is a space and
\* the cursor is at (0, 0).
C14_ClearHome ==
    ClearedHome =>
        /\ ~term_data.panicked
        /\ term_data.buf = [r \in Rows |-> [j \in Cols |-> SP]]
        /\ term_data.cur = Cursor(0, 0)

\* cleared and homed, in an emulator whose modes and scroll region were set
C14_Witness ==
    /\ ClearedHome
    /\ term_data.cur = Cursor(0, 0)
    /\ term_data.buf[H - 1][W - 1] = SP
    /\ "LINE_WRAP" \notin term_data.mode
    /\ term_data.scroll_range = LineRange(1, H - 1)

\* H rows of W cells
GridShape(buf) ==
    /\ DOMAIN buf = Rows
    /\ \A r \in Rows : DOMAIN buf[r] = Cols

\* C15: the grid has H rows of W cells in every state, whatever was fed,
\* and so has the snapshot ret_screen gives and every snapshot the AI got.
C15_GridDimensions ==
    /\ GridShape(term_data.buf)
    /\ GridShape(ret_screen(term_data))
    /\ \A k \in 1 .. Len(ai_log) :
        IsSome(ai_log[k].map) => GridShape(Unwrap(ai_log[k].map))

\* CSI 1 P at column 0 of the filled grid: the row moved left, its length kept
C15_Witness ==
    /\ fed = 1
    /\ last_cb = Csi(<<1>>, "P")
    /\ term_data.cur = Cursor(0, 0)
    /\ term_data.buf[0][0] = CellChar(0, 1)
    /\ term_data.buf[0][W - 1] = SP
    /\ GridShape(term_data.buf)

\* C16: every cell of the grid holds a printable ASCII byte or a space,
\* also after print was called with a character that is not ASCII.
C16_CellsAscii ==
    \A r \in Rows : \A j \in Cols :
        32 <= term_data.buf[r][j] /\ term_data.buf[r][j] <= 126

RECURSIVE AfterLfTimes(_, _)
AfterLfTimes(t, n) == IF n = 0 THEN t ELSE AfterLfTimes(AfterLf(t), n - 1)

\* what printing c makes of t with LINE_WRAP set: x is reduced by W with a
\* linefeed each time until x < W, c is written at (x, y), x advances by one
AfterPrint(t, c) ==
    LET u == AfterLfTimes([t EXCEPT !.cur.x = t.cur.x % W], t.cur.x \div W) IN
    [u EXCEPT !.buf[u.cur.y][u.cur.x] = c,
              !.preceeding = Some(c),
              !.cur.x = u.cur.x + 1]

\* the step prints a character with LINE_WRAP set, the cursor on a row of
\* the grid
WrapPrint ==
    /\ fed' = fed + 1
    /\ last_cb'.kind = "print"
    /\ "LINE_WRAP" \in term_data.mode
    /\ term_data.cur.y < H

\* the step prints the last of W + 1 characters printed in a row
LastOfRow == WrapPrint /\ fed = W /\ OnlyPrints(last_cb) /\ term_data.cur.x = W

\* C17 as stated: with LINE_WRAP set a print first wraps (x reduced by W and
\* a linefeed, until x < W), then writes at (x, y) and advances x; and the
\* last of W + 1 characters printed from column 0 is in column 0 of the
\* following line, x being 1 (stated for the valid scroll regions alone).
C17_AsStated ==
    [][/\ WrapPrint => term_data' = AfterPrint(term_data, AsU8(last_cb'.c))
       /\ (LastOfRow /\ ScrollRangeValid(term_data)) =>
            /\ term_data'.cur.x = 1
            /\ term_data'.buf[term_data'.cur.y][0] = AsU8(last_cb'.c)
            /\ \/ term_data'.cur.y = term_data.cur.y + 1
               \/ term_data.cur.y + 1 = term_data.scroll_range.bottom]_vars

\* C17: with LINE_WRAP set a print first wraps (x reduced by W and a
\* linefeed, until x < W), then writes at (x, y) and advances x; the last of
\* W + 1 characters printed from column 0 is in column 0 of the following
\* line, x being 1, unless the cursor is on the last row of the grid and that
\* row is not the last line of the scroll region: then the linefeed does
\* nothing and the character replaces the one in column 0 of the same row.
C17_WrapPrint ==
    [][/\ WrapPrint => term_data' = AfterPrint(term_data, AsU8(last_cb'.c))
       /\ LastOfRow =>
            /\ term_data'.cur.x = 1
            /\ term_data'.buf[term_data'.cur.y][0] = AsU8(last_cb'.c)
            /\ \/ term_data'.cur.y = term_data.cur.y + 1
               \/ term_data.cur.y + 1 = term_data.scroll_range.bottom
               \/ /\ term_data.cur.y = H - 1
                  /\ term_data' =
                        [term_data EXCEPT !.buf[H - 1][0] = AsU8(last_cb'.c),
                                          !.preceeding = Some(AsU8(last_cb'.c)),
                                          !.cur.x = 1]]_vars

\* W + 1 characters were printed from column 0 of row 0: the last one is in
\* column 0 of row 1
C17_Witness ==
    /\ fed = W + 1
    /\ last_cb.kind = "print"
    /\ last_cb.after.kind = "print"
    /\ "LINE_WRAP" \in term_data.mode
    /\ term_data.cur = Cursor(1, 1)
    /\ term_data.buf[1][0] = 65 + W
    /\ term_data.buf[0][W - 1] = 65 + W - 1
    /\ term_data.buf[0][0] = 122

\* the driver has received Panicked from the reader
GotPanicked == "Panicked" \in Range(outcomes)

\* the driver's step that receives Panicked
TakesPanicked == ~GotPanicked /\ "Panicked" \in Range(outcomes')

\* C18: the step in which the driver receives Panicked sends Panicked to the
\* viewer and aborts play without a call of the AI, a change of the emulator
\* or a write to the child; and no later step calls the AI (GameEnded
\* included), applies a chunk to the emulator or writes to the child.
C18_PanickedAborts ==
    [][/\ TakesPanicked =>
            /\ Last(received').tag = "Panicked"
            /\ draw_type = "Terminal" => vchan' = Append(vchan, Panicked)
            /\ pc' = "unwound"
       /\ (TakesPanicked \/ GotPanicked) =>
            /\ pc' = "unwound"
            /\ UNCHANGED <<ai_log, applied, term_data, stdin_log, stored_map, i>>
            /\ received' = received \/ TakesPanicked]_vars

\* Panicked came after the AI was called and a chunk was applied, the viewer
\* has taken it, and the child and the reader have moved since
C18_Witness ==
    /\ GotPanicked
    /\ draw_type = "Terminal"
    /\ viewed # <<>> /\ Last(viewed).tag = "Panicked"
    /\ ai_log # <<>> /\ applied # <<>>
    /\ IsSome(ai_reply)
    /\ pipe # <<>>
    /\ \A k \in 1 .. Len(ai_log) : ai_log[k].at = "loop" /\ ai_log[k].turn < i
    /\ i < max_loop

\* the step hands the AI's bytes to send_bytes, and write_all returns Err
WriteFails == Len(stdin_log') > Len(stdin_log) /\ ~Last(stdin_log').ok

\* C19: an iteration whose write to the child's stdin fails does not abort
\* play: the driver is at the head of the next iteration, the emulator is
\* untouched, and proc_dead and stored_map are what the iteration makes of
\* them when the write succeeds (proc_dead set by Zero alone, stored_map
\* taken by the delivery alone).
C19_WriteFailureIgnored ==
    [][WriteFails =>
         /\ pc' = "loop" /\ pc = "loop"
         /\ i' = i + 1
         /\ term_data' = term_data
         /\ applied' = applied
         /\ proc_dead' = (Last(ai_log').evt = "GameEnded")
         /\ stored_map' = IF Last(ai_log').evt = "Changed" THEN None
                          ELSE stored_map
         /\ Len(ai_log') = Len(ai_log) + 1]_vars

\* the write of the reply to a delivered grid failed, and the AI was called
\* again in a later iteration
C19_Witness ==
    \E k \in 1 .. Len(stdin_log) :
        /\ ~stdin_log[k].ok
        /\ ai_log[k].evt = "Changed"
        /\ k < Len(stdin_log)
        /\ ai_log[k + 1].at = "loop" /\ ai_log[k + 1].turn = ai_log[k].turn + 1

\* the driver's step receives a Valid chunk
TakesValid == Len(outcomes') > Len(outcomes) /\ Last(outcomes') = "Valid"

\* C20: an iteration that receives Valid bytes calls the AI not at all and
\* writes nothing to the child; it applies the chunk to the emulator and,
\* the emulator having taken the chunk, stored_map is the grid after the
\* chunk, whatever stored_map held before.
C20_ValidStores ==
    [][TakesValid =>
         /\ ai_log' = ai_log
         /\ stdin_log' = stdin_log
         /\ Last(received').tag = "Valid"
         /\ applied' = applied \o Last(received').bytes
         /\ ~term_data'.panicked =>
              /\ stored_map' = Some(term_data'.buf)
              /\ term_data'.buf = AdvanceAll(InitTerm, applied').buf
              /\ i' = i + 1 /\ pc' = "loop"]_vars

\* two chunks in a row, the second changing the grid: the snapshot of the
\* first was never delivered, and stored_map is the grid after the second
C20_Witness ==
    /\ Len(outcomes) >= 2
    /\ outcomes[Len(outcomes)] = "Valid"
    /\ outcomes[Len(outcomes) - 1] = "Valid"
    /\ stored_map = Some(term_data.buf)
    /\ term_data.buf # AdvanceAll(InitTerm, received[Len(received) - 1].bytes).buf
    /\ ai_log = <<>>
    /\ pc = "loop"

\* the reader's step publishes a message
Publishes == published' # published

\* C21: every message the reader publishes is the one its read calls for:
\* Valid(chunk) for a read of n bytes, 0 < n < BUFSIZE, Zero for a read of
\* 0 bytes at the end of the child's output, Panicked for a read of BUFSIZE
\* bytes or a read error; and it is published after Valid messages alone,
\* so a Zero or a Panicked is the only one and the last of the channel.
C21_ReaderProtocol ==
    [][Publishes =>
         /\ \A k \in 1 .. Len(published) : published[k].tag = "Valid"
         /\ chan' = Append(chan, Last(published'))
         /\ published' = Append(published, Last(published'))
         /\ IF pipe' # pipe
            THEN /\ pipe' = Tail(pipe)
                 /\ Last(published') =
                      IF Head(pipe).n = BUFSIZE THEN Panicked
                      ELSE Valid(Head(pipe).bytes)
                 /\ Head(pipe).n = BUFSIZE \/
                      (Head(pipe).n > 0 /\ Head(pipe).n = Len(Head(pipe).bytes))
            ELSE \/ Last(published') = Panicked
                 \/ Last(published') = Zero /\ AtEof]_vars

\* a Valid chunk was published, then a terminal message, and the reader has
\* stopped while play is in its loop
C21_Witness ==
    /\ Len(published) >= 2
    /\ published[1].tag = "Valid"
    /\ Last(published).tag \in {"Zero", "Panicked"}
    /\ reader \in {"done", "panicked"}
    /\ pc = "loop"

\* the child is dead: it has exited, or kill() has killed it
ChildDead == child \in {"exited", "killed"}

CsiStep(final) ==
    /\ fed' = fed + 1
    /\ last_cb'.kind = "csi" /\ last_cb'.action = final
    /\ ~term_data'.panicked

\* the step feeds ESC <byte> to an emulator that takes it
EscStep(byte) ==
    /\ fed' = fed + 1
    /\ last_cb'.kind = "esc" /\ last_cb'.byte = byte
    /\ last_cb'.intermediates = <<>>
    /\ ~term_data'.panicked

\* the count of the step's CSI sequence
CountArg == args_or(last_cb'.args, 0, 1)

\* rows from .. bottom-1 moved down by n: the first n of them blank
ShiftedDown(buf, from, bottom, n) ==
    [r \in Rows |->
        IF from <= r /\ r < bottom
        THEN IF r - n >= from THEN buf[r - n] ELSE BlankRow
        ELSE buf[r]]

\* rows from .. bottom-1 moved up by n: the last n of them blank
ShiftedUp(buf, from, bottom, n) ==
    [r \in Rows |->
        IF from <= r /\ r < bottom
        THEN IF r + n < bottom THEN buf[r + n] ELSE BlankRow
        ELSE buf[r]]

\* all of the emulator but its grid
NoGrid(t) == [f \in DOMAIN t \ {"buf"} |-> t[f]]

\* C23: CSI n T with n >= 1, on a valid scroll region [top, bottom), moves
\* the region's rows down by n, blanks its first n rows and leaves the rows
\* outside the region and the cursor as they are.
C23_ScrollDown ==
    [][(CsiStep("T") /\ CountArg >= 1 /\ ScrollRangeValid(term_data)) =>
         /\ term_data'.buf = ShiftedDown(term_data.buf, term_data.scroll_range.top,
                                         term_data.scroll_range.bottom, CountArg)
         /\ term_data'.cur = term_data.cur]_vars

\* C24: CSI n S with n >= 1 moves the rows of the scroll region [top, bottom)
\* up by n, blanks its last n rows and leaves the rows outside the region,
\* the cursor and the rest of the emulator as they are.
C24_ScrollUp ==
    [][(CsiStep("S") /\ CountArg >= 1) =>
         /\ term_data'.buf = ShiftedUp(term_data.buf, term_data.scroll_range.top,
                                       term_data.scroll_range.bottom, CountArg)
         /\ NoGrid(term_data') = NoGrid(term_data)]_vars

\* CSI 2 S on the filled grid with the region [0, H): the first row is the
\* old third, the last is blank, and the cursor is where it was
C24_Witness ==
    /\ fed = 1 /\ last_cb = Csi(<<2>>, "S") /\ ~term_data.panicked
    /\ term_data.scroll_range = LineRange(0, H)
    /\ term_data.buf[0] = FilledTerm.buf[2]
    /\ term_data.buf[H - 1] = BlankRow
    /\ term_data.cur.y = 1

\* C25: ESC M with the cursor on the top row of a valid scroll region moves
\* the region's rows down by one, the first of them blank, and leaves the
\* cursor; else with y > 0 it moves the cursor up by one and leaves the grid;
\* else it changes nothing.
C25_ReverseIndex ==
    [][(EscStep("M") /\ ScrollRangeValid(term_data)) =>
         IF term_data.cur.y = term_data.scroll_range.top
         THEN /\ term_data'.buf =
                    ShiftedDown(term_data.buf, term_data.scroll_range.top,
                                term_data.scroll_range.bottom, 1)
              /\ term_data'.cur = term_data.cur
         ELSE IF term_data.cur.y > 0
         THEN /\ term_data'.buf = term_data.buf
              /\ term_data'.cur = Cursor(term_data.cur.x, term_data.cur.y - 1)
         ELSE term_data' = term_data]_vars

\* C26: CSI n L with n >= 1 and the cursor row y in a valid scroll region
\* moves the rows y .. bottom-1 down by n, the first n of them blank, and
\* leaves the rows above y and outside the region; with y outside the region
\* the grid is as it was.
C26_InsertLines ==
    [][(CsiStep("L") /\ CountArg >= 1 /\ ScrollRangeValid(term_data)) =>
         term_data'.buf =
            IF Contains(term_data.scroll_range, term_data.cur.y)
            THEN ShiftedDown(term_data.buf, term_data.cur.y,
                             term_data.scroll_range.bottom, CountArg)
            ELSE term_data.buf]_vars

\* C27: CSI n M with n >= 1 and the cursor row y in the scroll region moves
\* the rows y .. bottom-1 up by n, the last n of them blank, and leaves the
\* rows above y and outside the region; with y outside the region the grid
\* is as it was. The rest of the emulator is as it was.
C27_DeleteLines ==
    [][(CsiStep("M") /\ CountArg >= 1) =>
         /\ term_data'.buf =
              IF Contains(term_data.scroll_range, term_data.cur.y)
              THEN ShiftedUp(term_data.buf, term_data.cur.y,
                             term_data.scroll_range.bottom, CountArg)
              ELSE term_data.buf
         /\ NoGrid(term_data') = NoGrid(term_data)]_vars

\* CSI M on the filled grid with the cursor on the second row of the region
\* [0, H): the first row stays, the second is the old third, the last blank
C27_Witness ==
    /\ fed = 1 /\ last_cb = Csi(<<1>>, "M") /\ ~term_data.panicked
    /\ term_data.scroll_range = LineRange(0, H)
    /\ term_data.cur.y = 1
    /\ term_data.buf[0] = FilledTerm.buf[0]
    /\ term_data.buf[1] = FilledTerm.buf[2]
    /\ term_data.buf[H - 1] = BlankRow

\* the step feeds CSI <n> <final>
CsiFed(final) ==
    /\ fed' = fed + 1
    /\ last_cb'.kind = "csi" /\ last_cb'.action = final
    /\ last_cb'.intermediates = <<>>

\* the row after n blanks were inserted at column x
BlanksInserted(row, x, n) ==
    [j \in Cols |-> IF j < x THEN row[j]
                    ELSE IF j < x + n THEN SP
                    ELSE row[j - n]]

\* C28: CSI n @ with n >= 1 and the cursor at a column x < W completes; on
\* the cursor's row the columns below x stay, x .. x+n-1 are blank and every
\* column j >= x+n holds what column j-n held; the other rows and the
\* cursor stay.
C28_InsertBlankChars ==
    [][(CsiFed("@") /\ CountArg >= 1 /\ term_data.cur.x < W) =>
         /\ ~term_data'.panicked
         /\ term_data'.buf =
              [term_data.buf EXCEPT
                 ![term_data.cur.y] = BlanksInserted(@, term_data.cur.x, CountArg)]
         /\ term_data'.cur = term_data.cur]_vars

\* a character was printed in the last column: W characters from column 0
AfterLastColumn == OnlyPrints(last_cb) /\ fed = W /\ term_data.cur.x = W

\* C29: right after a character was printed in the last column, CSI 1 K
\* (clear_line(Left)) and CSI 1 J (clear_screen(Above)) complete, blank the
\* whole of the cursor's row and, for J, the rows above it, and leave the
\* rows below.
C29_ClearAtLastColumn ==
    [][(AfterLastColumn /\ (CsiFed("K") \/ CsiFed("J")) /\ CountArg = 1) =>
         /\ ~term_data'.panicked
         /\ term_data'.buf =
              [r \in Rows |->
                 IF r = term_data.cur.y \/ (last_cb'.action = "J" /\ r < term_data.cur.y)
                 THEN BlankRow ELSE term_data.buf[r]]]_vars

\* C30: ESC > takes APP_KEYPAD out of the mode flags and ESC = puts it in;
\* the other flags, the grid and the cursor stay.
C30_Keypad ==
    [][/\ EscStep(">") =>
            term_data' = [term_data EXCEPT !.mode = @ \ {"APP_KEYPAD"}]
       /\ EscStep("=") =>
            term_data' = [term_data EXCEPT !.mode = @ \cup {"APP_KEYPAD"}]]_vars

\* the step feeds CSI <code> h or CSI <code> l, private or not
ModeStep(final, private, code) ==
    /\ fed' = fed + 1
    /\ last_cb'.kind = "csi" /\ last_cb'.action = final
    /\ (last_cb'.intermediates = <<"?">>) = private
    /\ args_or(last_cb'.args, 0, 0) = code

\* C31: CSI ? 1049 h records the cursor in the saved-cursor slot and leaves
\* the cursor; CSI ? 1049 l sets the cursor to the slot; neither changes the
\* grid.
C31_Mode1049 ==
    [][/\ ModeStep("h", TRUE, 1049) =>
            /\ term_data'.saved_cur = term_data.cur
            /\ term_data'.cur = term_data.cur
            /\ term_data'.buf = term_data.buf
       /\ ModeStep("l", TRUE, 1049) =>
            /\ term_data'.cur = term_data.saved_cur
            /\ term_data'.buf = term_data.buf]_vars

\* the table of mode codes: the flag of a code, if it has one
ModeTable(private, code) ==
    IF private
    THEN CASE code = 1 -> Some("APP_CURSOR")
           [] code = 6 -> Some("ORIGIN")
           [] code = 7 -> Some("LINE_WRAP")
           [] code = 25 -> Some("SHOW_CURSOR")
           [] code = 1000 -> Some("MOUSE_REPORT_CLICK")
           [] code = 1002 -> Some("MOUSE_MOTION")
           [] code = 1004 -> Some("FOCUS_IN_OUT")
           [] code = 1006 -> Some("SGR_MOUSE")
           [] code = 2004 -> Some("BRACKETED_PASTE")
           [] OTHER -> None
    ELSE CASE code = 4 -> Some("INSERT")
           [] code = 20 -> Some("LINE_FEED_NEW_LINE")
           [] OTHER -> None

PrintStep ==
    /\ fed' = fed + 1
    /\ last_cb'.kind = "print"
    /\ ~term_data'.panicked

\* the character of the step is dropped: no LINE_WRAP, the column past W-1
Dropped == "LINE_WRAP" \notin term_data.mode /\ term_data.cur.x >= W

\* C33: a character printed with LINE_WRAP unset and the cursor column at or
\* past W is dropped: the grid, the cursor and all of the emulator are as
\* they were.
C33_DropWithoutWrap ==
    [][(PrintStep /\ Dropped) => term_data' = term_data]_vars

\* W characters from column 0 without LINE_WRAP, and one more: the last
\* column holds the W-th character, the cursor column is still W
C33_Witness ==
    /\ fed = W + 1 /\ OnlyPrints(last_cb) /\ last_cb.c = 65 + W
    /\ "LINE_WRAP" \notin term_data.mode
    /\ term_data.cur.x = W
    /\ term_data.buf[term_data.cur.y][W - 1] = 65 + W - 1
    /\ ~term_data.panicked

\* C34 as stated: the preceding character is none at construction, and after
\* every print of a byte c it is c.
C34_AsStated ==
    [][PrintStep =>
         /\ InitTerm.preceeding = None
         /\ term_data'.preceeding = Some(AsU8(last_cb'.c))]_vars

\* C34: the preceding character is none at construction, and after every
\* print of a byte c that is written to the grid it is c; a print that is
\* dropped (LINE_WRAP unset, the column at or past W) leaves it.
C34_Preceding ==
    [][PrintStep =>
         /\ InitTerm.preceeding = None
         /\ term_data'.preceeding =
              IF Dropped THEN term_data.preceeding
              ELSE Some(AsU8(last_cb'.c))]_vars

\* a character printed over the filled grid, whose last character was another
C34_Witness ==
    /\ fed = 1 /\ last_cb.kind = "print"
    /\ term_data.preceeding = Some(AsU8(last_cb.c))
    /\ FilledTerm.preceeding # term_data.preceeding
    /\ term_data.buf[H - 1][W - 1] = Unwrap(FilledTerm.preceeding)
    /\ term_data.cur = Cursor(1, 0)

\* the character c printed n times
RECURSIVE PrintTimes(_, _, _)
PrintTimes(t, c, n) ==
    IF n <= 0 \/ t.panicked THEN t
    ELSE CHOOSE res \in {PrintTimes(u, c, n - 1) : u \in {print(t, c)}} : TRUE

\* C35: CSI n b with a preceding character c leaves the emulator as n more
\* prints of c do, wrap and scroll included; with no preceding character it
\* changes nothing.
C35_Repeat ==
    [][(fed' = fed + 1 /\ last_cb'.kind = "csi" /\ last_cb'.action = "b") =>
         term_data' =
            IF IsSome(term_data.preceeding)
            THEN PrintTimes(term_data, Unwrap(term_data.preceeding), CountArg)
            ELSE term_data]_vars

\* CSI MaxArg b from column 0 of the filled grid, LINE_WRAP set: the last
\* character of the fill was repeated over the row and wrapped to column 0
C35_Witness ==
    /\ fed = 1 /\ last_cb = Csi(<<MaxArg>>, "b")
    /\ "LINE_WRAP" \in term_data.mode
    /\ ~term_data.panicked
    /\ term_data.preceeding = FilledTerm.preceeding
    /\ term_data.buf[term_data.cur.y][0] = Unwrap(FilledTerm.preceeding)
    /\ term_data.buf[0] # FilledTerm.buf[0]
    /\ term_data.cur.x = MaxArg - W

\* the step feeds a CSI sequence whose parameter is a 1-based row or column
OneBasedStep ==
    /\ fed' = fed + 1
    /\ last_cb'.kind = "csi"
    /\ last_cb'.action \in {"G", "grave", "H", "f", "d", "r"}
    /\ last_cb'.intermediates = <<>>

\* C36: CSI G, `, H, f, d and r with any parameter the parser passes, an
\* explicit 0 included, end without an arithmetic fault, and the row or
\* column they set is no greater than the parameter.
C36_NoUnderflow ==
    [][OneBasedStep =>
         LET a0 == args_or(last_cb'.args, 0, 1)
             a1 == args_or(last_cb'.args, 1, 1)
             final == last_cb'.action
         IN  /\ (final # "d" \/ a0 <= H) => ~term_data'.panicked
             /\ ~term_data'.panicked =>
                  /\ final \in {"G", "grave"} => term_data'.cur.x <= a0
                  /\ final \in {"H", "f"} =>
                        term_data'.cur.x <= a1 /\ term_data'.cur.y <= a0
                  /\ final = "d" => term_data'.cur.y <= a0
                  /\ final = "r" => term_data'.scroll_range.top <= a0]_vars

\* the calls of the AI with GameEnded
GameEndedCalls == {k \in 1 .. Len(ai_log) : ai_log[k].evt = "GameEnded"}

\* C37: when play has returned, the AI got GameEnded exactly once, as its
\* last event: in the iteration that received Zero, or after the loop with
\* turn = max_loop in a run that received no Zero.
C37_GameEndedOnce ==
    pc = "returned" =>
        /\ GameEndedCalls = {Len(ai_log)}
        /\ ai_log # <<>>
        /\ IF "Zero" \in Range(outcomes)
           THEN /\ Last(ai_log).at = "loop"
                /\ outcomes[Last(ai_log).turn + 1] = "Zero"
           ELSE /\ Last(ai_log).at = "epilogue"
                /\ Last(ai_log).turn = max_loop

\* play has returned after a grid was delivered and the child closed
C37_Witness ==
    /\ pc = "returned"
    /\ Len(ai_log) >= 2
    /\ ai_log[1].evt = "Changed"
    /\ Last(ai_log).at = "loop"

\* the step calls the AI with the event evt
Calls(evt) == Len(ai_log') = Len(ai_log) + 1 /\ Last(ai_log').evt = evt

\* C38: a call of the AI with Changed(map) is made in a timeout iteration
\* that follows an iteration with bytes; map is the grid of the emulator at
\* the call and the snapshot held, and stored_map is None after it.
C38_ChangedIsCurrent ==
    [][Calls("Changed") =>
         /\ Last(ai_log').map = Some(term_data.buf)
         /\ term_data' = term_data
         /\ stored_map = Last(ai_log').map
         /\ stored_map' = None
         /\ Last(outcomes) = "Valid" /\ Last(outcomes') = "Timeout"]_vars

\* a grid that is not blank was delivered after more than one byte was
\* applied; it is the grid of the emulator, and no snapshot is held
C38_Witness ==
    \E k \in 1 .. Len(ai_log) :
        /\ ai_log[k].evt = "Changed"
        /\ ai_log[k].map = Some(term_data.buf)
        /\ ai_log[k].map # Some(InitTerm.buf)
        /\ Len(applied) > 1
        /\ stored_map = None

\* C39: the iteration that receives Zero calls the AI with GameEnded alone,
\* whether a snapshot is held or not, and so does the call after the loop;
\* once the game has ended or the loop is over, no Changed is delivered.
C39_HeldSnapshotLost ==
    [][/\ (Len(outcomes') > Len(outcomes) /\ Last(outcomes') = "Zero") =>
            Calls("GameEnded")
       /\ pc = "final" => (pc' = pc \/ Calls("GameEnded"))
       /\ (proc_dead \/ pc # "loop" \/ i >= max_loop) =>
            ~Calls("Changed") /\ ~Calls("NotChanged")]_vars

\* play has returned with a snapshot held: the child's output was applied
\* and the AI got GameEnded, no Changed
C39_Witness ==
    /\ pc = "returned"
    /\ IsSome(stored_map)
    /\ stored_map = Some(term_data.buf)
    /\ stored_map # Some(InitTerm.buf)
    /\ Len(ai_log) = 1 /\ ai_log[1].evt = "GameEnded"

\* C40: no recv_timeout of play yields Disconnected.
C40_NeverDisconnected == "Disconnected" \notin Range(outcomes)

\* the reader thread has exited, play is in its loop and has timed out before
C40_Witness ==
    /\ reader \in {"done", "panicked"}
    /\ pc = "loop" /\ i < max_loop /\ ~proc_dead
    /\ "Timeout" \in Range(outcomes)
====
